---- MODULE Spec2Model ----
(***************************************************************************)
(* Othello AI (agent.py): the minimax and alpha-beta searches with the      *)
(* process-wide state cache and the node ordering, over the board rules of  *)
(* othello_shared (find_lines, get_possible_moves, play_move, get_score).   *)
(***************************************************************************)
EXTENDS Integers, Sequences, FiniteSets, TLC

(* ---------------------------------------------------------------------- *)
(* Values                                                                  *)
(* ---------------------------------------------------------------------- *)

\* float('inf'): larger than any disk differential of the boards modelled
PosInf == 1000

\* float('-inf')
NegInf == 0 - PosInf

\* Python's None (no move)
None == <<>>

(* ---------------------------------------------------------------------- *)
(* Board rules (othello_shared)                                            *)
(* A board is a tuple of rows; the source reads the square in column i,    *)
(* row j (both from 0) as board[j][i].                                      *)
(* ---------------------------------------------------------------------- *)

square(b, i, j) == b[j + 1][i + 1]

directions ==
    << <<0, 1>>, <<1, 1>>, <<1, 0>>, <<1, -1>>,
       <<0, -1>>, <<-1, -1>>, <<-1, 0>>, <<-1, 1>> >>

\* one direction of find_lines: the opponent disks from (u, v) on, up to a
\* disk of player; <<>> when the walk ends on an empty square or off the board
RECURSIVE find_line(_, _, _, _, _, _, _)
find_line(b, u, v, xdir, ydir, player, line) ==
    IF u < 0 \/ u >= Len(b) \/ v < 0 \/ v >= Len(b) THEN <<>>
    ELSE IF square(b, u, v) = 0 THEN <<>>
    ELSE IF square(b, u, v) = player THEN line
    ELSE find_line(b, u + xdir, v + ydir, xdir, ydir, player,
                   Append(line, <<u, v>>))

find_lines(b, i, j, player) ==
    LET one(d) == find_line(b, i + directions[d][1], j + directions[d][2],
                            directions[d][1], directions[d][2], player, <<>>)
        all == [d \in 1..Len(directions) |-> one(d)]
    IN  SelectSeq(all, LAMBDA l : l # <<>>)

\* the squares in the order the source scans them: column i outer, row j inner
squares(n) == [k \in 1..(n * n) |-> <<(k - 1) \div n, (k - 1) % n>>]

get_possible_moves(b, player) ==
    SelectSeq(squares(Len(b)),
              LAMBDA m : /\ square(b, m[1], m[2]) = 0
                         /\ find_lines(b, m[1], m[2], player) # <<>>)

play_move(b, player, i, j) ==
    LET lines == find_lines(b, i, j, player)
        flipped == UNION {{lines[l][k] : k \in 1..Len(lines[l])} :
                          l \in 1..Len(lines)}
    IN  [v \in 1..Len(b) |->
            [u \in 1..Len(b) |->
                IF <<u - 1, v - 1>> = <<i, j>> \/ <<u - 1, v - 1>> \in flipped
                THEN player
                ELSE b[v][u]]]

\* (dark disks, light disks)
get_score(b) ==
    LET count(p) == Cardinality({m \in {squares(Len(b))[k] : k \in 1..(Len(b) * Len(b))} :
                                 square(b, m[1], m[2]) = p})
    IN  <<count(1), count(2)>>

(* ---------------------------------------------------------------------- *)
(* Evaluation                                                              *)
(* ---------------------------------------------------------------------- *)

compute_utility(b, color) ==
    LET score == get_score(b)
    IN  IF color = 1 THEN score[1] - score[2]
        ELSE IF color = 2 THEN score[2] - score[1]
        ELSE 0

(* ---------------------------------------------------------------------- *)
(* The state cache, and the record of one search                           *)
(* A search procedure is handed mem: the dictionary cached_states as it is *)
(* at that point, with the history of the search under way: the number of  *)
(* lookups answered from the cache (hits), of loops left by break (cuts),  *)
(* and the windows of the recursive calls made (windows).  It hands back   *)
(* the pair it returns and mem as it has left it.                           *)
(* ---------------------------------------------------------------------- *)

fresh(cs) == [cached_states |-> cs, hits |-> 0, cuts |-> 0, windows |-> {}]

\* cached_states[key] = value
store(mem, key, value) ==
    [mem EXCEPT !.cached_states =
        [k \in DOMAIN mem.cached_states \cup {key} |->
            IF k = key THEN value ELSE mem.cached_states[k]]]

\* return cached_states[key]
hit(mem) == [mem EXCEPT !.hits = @ + 1]

\* break
cut(mem) == [mem EXCEPT !.cuts = @ + 1]

\* a recursive call with window (alpha, beta) by a node entered with window entry
entered(mem, entry, alpha, beta) ==
    [mem EXCEPT !.windows = @ \cup {<<entry[1], entry[2], alpha, beta>>}]

result(move, utility, mem) == [move |-> move, utility |-> utility, mem |-> mem]

\* the key of a minimax node
minimax_key(b, color) == <<b, color>>

\* a mutant of alphabeta_key: the board is left out of the key
alphabeta_key_no_board(b, color, alpha, beta) == <<color, alpha, beta>>

\* the key of an alpha-beta node
alphabeta_key(b, color, alpha, beta) == <<b, color, alpha, beta>>

\* a mutant of is_leaf: the depth limit is met one level early
is_leaf_early(possible_moves, limit) ==
    possible_moves = <<>> \/ limit = 0 \/ limit = 1

\* if not possible_moves or limit == 0
is_leaf(possible_moves, limit) == possible_moves = <<>> \/ limit = 0

(* ---------------------------------------------------------------------- *)
(* Minimax                                                                 *)
(* ---------------------------------------------------------------------- *)

\* if caching == 1: cached_states[(board, color)] = (best_move, best_utility)
\* return best_move, best_utility
minimax_return(b, color, caching, best) ==
    IF caching = 1
    THEN result(best.move, best.utility,
                store(best.mem, minimax_key(b, color), <<best.move, best.utility>>))
    ELSE best

\* if not best_move or utility < best_utility: best_move, best_utility = move, utility
\* (r is what the recursive call on the board after move returned)
minimax_min_update(move, best, r) ==
    IF best.move = None \/ r.utility < best.utility
    THEN result(move, r.utility, r.mem)
    ELSE result(best.move, best.utility, r.mem)

\* if not best_move or utility > best_utility: best_move, best_utility = move, utility
minimax_max_update(move, best, r) ==
    IF best.move = None \/ r.utility > best.utility
    THEN result(move, r.utility, r.mem)
    ELSE result(best.move, best.utility, r.mem)

RECURSIVE minimax_min_node(_, _, _, _, _)
RECURSIVE minimax_max_node(_, _, _, _, _)
RECURSIVE minimax_min_for(_, _, _, _, _, _, _)
RECURSIVE minimax_max_for(_, _, _, _, _, _, _)

\* the loop of minimax_min_node from the k-th move on; best holds best_move,
\* best_utility and the cache as the moves before the k-th have left them
minimax_min_for(b, color, limit, caching, possible_moves, k, best) ==
    IF k > Len(possible_moves) THEN best
    ELSE minimax_min_for(b, color, limit, caching, possible_moves, k + 1,
             minimax_min_update(possible_moves[k], best,
                 minimax_max_node(play_move(b, color, possible_moves[k][1],
                                            possible_moves[k][2]),
                                  3 - color, limit - 1, caching, best.mem)))

minimax_min_node(b, color, limit, caching, mem) ==
    IF caching = 1 /\ minimax_key(b, color) \in DOMAIN mem.cached_states
    THEN result(mem.cached_states[minimax_key(b, color)][1],
                mem.cached_states[minimax_key(b, color)][2], hit(mem))
    ELSE LET possible_moves == get_possible_moves(b, color)
         IN  IF is_leaf(possible_moves, limit)
             THEN result(None, compute_utility(b, color), mem)
             ELSE minimax_return(b, color, caching,
                      minimax_min_for(b, color, limit, caching, possible_moves,
                                      1, result(None, PosInf, mem)))

\* the loop of minimax_max_node from the k-th move on
minimax_max_for(b, color, limit, caching, possible_moves, k, best) ==
    IF k > Len(possible_moves) THEN best
    ELSE minimax_max_for(b, color, limit, caching, possible_moves, k + 1,
             minimax_max_update(possible_moves[k], best,
                 minimax_min_node(play_move(b, color, possible_moves[k][1],
                                            possible_moves[k][2]),
                                  3 - color, limit - 1, caching, best.mem)))

minimax_max_node(b, color, limit, caching, mem) ==
    IF caching = 1 /\ minimax_key(b, color) \in DOMAIN mem.cached_states
    THEN result(mem.cached_states[minimax_key(b, color)][1],
                mem.cached_states[minimax_key(b, color)][2], hit(mem))
    ELSE LET possible_moves == get_possible_moves(b, color)
         IN  IF is_leaf(possible_moves, limit)
             THEN result(None, compute_utility(b, color), mem)
             ELSE minimax_return(b, color, caching,
                      minimax_max_for(b, color, limit, caching, possible_moves,
                                      1, result(None, NegInf, mem)))

select_move_minimax(b, color, limit, caching, mem) ==
    minimax_max_node(b, color, limit, caching, mem)

(* ---------------------------------------------------------------------- *)
(* Alpha-beta pruning                                                      *)
(* ---------------------------------------------------------------------- *)

\* a mutant of sorted: one move is kept for each key (the moves are gathered
\* in a dictionary from key to move before they are listed)
sorted_by_dict(seq, keys) ==
    LET ordered(ks) ==
            LET firsts == {c \in 1..Len(seq) : \A a \in 1..(c - 1) : ks[a] # ks[c]}
                rank(c) == 1 + Cardinality({a \in firsts : ks[a] < ks[c]})
            IN  [r \in 1..Cardinality(firsts) |->
                    seq[CHOOSE c \in firsts : rank(c) = r]]
    IN  CHOOSE s \in {ordered(ks) : ks \in {keys}} : TRUE

\* Python's sorted(seq, key = ...), keys[k] being the key of seq[k]: ascending
\* in the key, and stable (equal keys keep the order of seq)
sorted(seq, keys) ==
    LET ordered(ks) ==
            LET before(a, c) == ks[a] < ks[c] \/ (ks[a] = ks[c] /\ a < c)
                rank(c) == 1 + Cardinality({a \in 1..Len(seq) : before(a, c)})
            IN  [r \in 1..Len(seq) |-> seq[CHOOSE c \in 1..Len(seq) : rank(c) = r]]
    IN  CHOOSE s \in {ordered(ks) : ks \in {keys}} : TRUE

\* sorted(possible_moves, key = lambda x: compute_utility(play_move(...), color))
sorted_min(b, color, possible_moves) ==
    sorted(possible_moves,
           [k \in 1..Len(possible_moves) |->
               compute_utility(play_move(b, color, possible_moves[k][1],
                                         possible_moves[k][2]), color)])

\* sorted(possible_moves, key = lambda x: -compute_utility(play_move(...), color))
sorted_max(b, color, possible_moves) ==
    sorted(possible_moves,
           [k \in 1..Len(possible_moves) |->
               0 - compute_utility(play_move(b, color, possible_moves[k][1],
                                             possible_moves[k][2]), color)])

\* a mutant of cutoff: break stands one level out, under the narrowing alone
cutoff_always(alpha, beta) == TRUE

\* a mutant of cutoff: the break is missing
cutoff_never(alpha, beta) == FALSE

\* if beta <= alpha: break
cutoff(alpha, beta) == beta <= alpha

\* where the loop of an alpha-beta node stands: best_move, best_utility, the
\* cache, the window (alpha, beta) as the loop has narrowed it, and whether the
\* loop has been left by break
loop(move, utility, mem, alpha, beta, broke) ==
    [move |-> move, utility |-> utility, mem |-> mem,
     alpha |-> alpha, beta |-> beta, broke |-> broke]

\* if caching == 1: cached_states[(board, color, alpha, beta)] = (best_move, best_utility)
\* return best_move, best_utility
alphabeta_return(b, color, caching, at) ==
    IF caching = 1
    THEN result(at.move, at.utility,
                store(at.mem, alphabeta_key(b, color, at.alpha, at.beta),
                      <<at.move, at.utility>>))
    ELSE result(at.move, at.utility, at.mem)

\* the body of the loop of alphabeta_min_node after the recursive call on the
\* board after move has returned r
alphabeta_min_update(move, at, r) ==
    LET better == at.move = None \/ r.utility < at.utility
        best_move == IF better THEN move ELSE at.move
        best_utility == IF better THEN r.utility ELSE at.utility
        narrow == at.beta > best_utility
        beta == IF narrow THEN best_utility ELSE at.beta
        broke == narrow /\ cutoff(at.alpha, beta)
    IN  loop(best_move, best_utility, IF broke THEN cut(r.mem) ELSE r.mem,
             at.alpha, beta, broke)

\* the body of the loop of alphabeta_max_node after the recursive call on the
\* board after move has returned r
alphabeta_max_update(move, at, r) ==
    LET better == at.move = None \/ r.utility > at.utility
        best_move == IF better THEN move ELSE at.move
        best_utility == IF better THEN r.utility ELSE at.utility
        narrow == at.alpha < best_utility
        alpha == IF narrow THEN best_utility ELSE at.alpha
        broke == narrow /\ cutoff(alpha, at.beta)
    IN  loop(best_move, best_utility, IF broke THEN cut(r.mem) ELSE r.mem,
             alpha, at.beta, broke)

RECURSIVE alphabeta_min_node(_, _, _, _, _, _, _, _)
RECURSIVE alphabeta_max_node(_, _, _, _, _, _, _, _)
RECURSIVE alphabeta_min_for(_, _, _, _, _, _, _, _, _)
RECURSIVE alphabeta_max_for(_, _, _, _, _, _, _, _, _)

\* the loop of alphabeta_min_node from the k-th move on; entry is the window
\* the node was entered with
alphabeta_min_for(b, color, limit, caching, ordering, possible_moves, k, at, entry) ==
    IF k > Len(possible_moves) \/ at.broke THEN at
    ELSE alphabeta_min_for(b, color, limit, caching, ordering, possible_moves,
             k + 1,
             alphabeta_min_update(possible_moves[k], at,
                 alphabeta_max_node(play_move(b, color, possible_moves[k][1],
                                              possible_moves[k][2]),
                                    3 - color, at.alpha, at.beta, limit - 1,
                                    caching, ordering,
                                    entered(at.mem, entry, at.alpha, at.beta))),
             entry)

alphabeta_min_node(b, color, alpha, beta, limit, caching, ordering, mem) ==
    IF caching = 1 /\ alphabeta_key(b, color, alpha, beta) \in DOMAIN mem.cached_states
    THEN result(mem.cached_states[alphabeta_key(b, color, alpha, beta)][1],
                mem.cached_states[alphabeta_key(b, color, alpha, beta)][2],
                hit(mem))
    ELSE LET possible_moves == get_possible_moves(b, color)
         IN  IF is_leaf(possible_moves, limit)
             THEN result(None, compute_utility(b, color), mem)
             ELSE alphabeta_return(b, color, caching,
                      alphabeta_min_for(b, color, limit, caching, ordering,
                          IF ordering = 1
                          THEN sorted_min(b, color, possible_moves)
                          ELSE possible_moves,
                          1, loop(None, PosInf, mem, alpha, beta, FALSE),
                          <<alpha, beta>>))

\* the loop of alphabeta_max_node from the k-th move on; entry is the window
\* the node was entered with
alphabeta_max_for(b, color, limit, caching, ordering, possible_moves, k, at, entry) ==
    IF k > Len(possible_moves) \/ at.broke THEN at
    ELSE alphabeta_max_for(b, color, limit, caching, ordering, possible_moves,
             k + 1,
             alphabeta_max_update(possible_moves[k], at,
                 alphabeta_min_node(play_move(b, color, possible_moves[k][1],
                                              possible_moves[k][2]),
                                    3 - color, at.alpha, at.beta, limit - 1,
                                    caching, ordering,
                                    entered(at.mem, entry, at.alpha, at.beta))),
             entry)

alphabeta_max_node(b, color, alpha, beta, limit, caching, ordering, mem) ==
    IF caching = 1 /\ alphabeta_key(b, color, alpha, beta) \in DOMAIN mem.cached_states
    THEN result(mem.cached_states[alphabeta_key(b, color, alpha, beta)][1],
                mem.cached_states[alphabeta_key(b, color, alpha, beta)][2],
                hit(mem))
    ELSE LET possible_moves == get_possible_moves(b, color)
         IN  IF is_leaf(possible_moves, limit)
             THEN result(None, compute_utility(b, color), mem)
             ELSE alphabeta_return(b, color, caching,
                      alphabeta_max_for(b, color, limit, caching, ordering,
                          IF ordering = 1
                          THEN sorted_max(b, color, possible_moves)
                          ELSE possible_moves,
                          1, loop(None, NegInf, mem, alpha, beta, FALSE),
                          <<alpha, beta>>))

select_move_alphabeta(b, color, limit, caching, ordering, mem) ==
    alphabeta_max_node(b, color, NegInf, PosInf, limit, caching, ordering,
                       entered(mem, <<NegInf, PosInf>>, NegInf, PosInf))

(* ---------------------------------------------------------------------- *)
(* The process (run_ai): the arguments of the run are read once, then each *)
(* board the game manager sends is answered with the move of one search;   *)
(* the cache lives as long as the process                                   *)
(* ---------------------------------------------------------------------- *)

\* the arguments of the run (color, limit, minimax, caching, ordering), the
\* board last received, the cache, and the last call made with what it returned
VARIABLES color, limit, minimax, caching, ordering, board, cached_states, ret

vars == <<color, limit, minimax, caching, ordering, board, cached_states, ret>>

\* bound: the largest positive depth limit of a run
MaxLimit == 3

\* the depth limits of a run: -1 (no limit) and the positive limits
Limits == {-1} \cup 1..MaxLimit

Colors == {1, 2}

Flags == {0, 1}

\* the boards a game is taken up at: 4 x 4 endgames, four squares empty
StartBoards ==
    { << <<0, x[1], x[2], 0>>, <<x[3], 0, 0, x[4]>>, r3, r4 >> :
        x \in [1..4 -> {1, 2}],
        r3 \in { <<1, 1, 1, 1>>, <<2, 2, 2, 2>> },
        r4 \in { <<1, 1, 2, 2>>, <<2, 2, 1, 1>> } }

NoCall == [fn |-> "none"]

Init ==
    /\ color \in Colors
    /\ limit \in Limits
    /\ minimax \in Flags
    /\ caching \in Flags
    /\ ordering \in Flags
    /\ minimax = 1 => ordering = 0
    /\ board \in StartBoards
    /\ cached_states = << >>
    /\ ret = NoCall

config == <<color, limit, minimax, caching, ordering>>

\* what is kept of a call: the entry point, the depth limit it was given, the
\* pair it returned, the cache it found and the history of the search
call(fn, lim, r) ==
    [fn |-> fn, limit |-> lim, move |-> r.move, utility |-> r.utility,
     before |-> cached_states, hits |-> r.mem.hits, cuts |-> r.mem.cuts,
     windows |-> r.mem.windows]

\* movei, movej = select_move_minimax(board, color, limit, caching)
SelectMoveMinimax ==
    /\ ret = NoCall
    /\ minimax = 1
    /\ LET r == select_move_minimax(board, color, limit, caching,
                                    fresh(cached_states))
       IN  /\ ret' = call("minimax", limit, r)
           /\ cached_states' = r.mem.cached_states
    /\ UNCHANGED <<board, config>>

\* movei, movej = select_move_alphabeta(board, color, limit, caching, ordering)
SelectMoveAlphabeta ==
    /\ ret = NoCall
    /\ minimax # 1
    /\ LET r == select_move_alphabeta(board, color, limit, caching, ordering,
                                      fresh(cached_states))
       IN  /\ ret' = call("alphabeta", limit, r)
           /\ cached_states' = r.mem.cached_states
    /\ UNCHANGED <<board, config>>

\* the entry point of the run called with depth limit 0 on the board at hand
DepthZeroMinimax ==
    /\ ret # NoCall /\ ret.limit # 0
    /\ minimax = 1
    /\ LET r == select_move_minimax(board, color, 0, caching,
                                    fresh(cached_states))
       IN  /\ ret' = call("minimax", 0, r)
           /\ cached_states' = r.mem.cached_states
    /\ UNCHANGED <<board, config>>

DepthZeroAlphabeta ==
    /\ ret # NoCall /\ ret.limit # 0
    /\ minimax # 1
    /\ LET r == select_move_alphabeta(board, color, 0, caching, ordering,
                                      fresh(cached_states))
       IN  /\ ret' = call("alphabeta", 0, r)
           /\ cached_states' = r.mem.cached_states
    /\ UNCHANGED <<board, config>>

\* the boards the game manager can send after the move printed: the move is
\* played, then a move of the opponent; when the opponent has none, the board
\* comes back as the move left it, if the player can move on it
next_boards(b, player, move) ==
    LET b1 == play_move(b, player, move[1], move[2])
        replies == get_possible_moves(b1, 3 - player)
    IN  IF replies # <<>>
        THEN {play_move(b1, 3 - player, replies[k][1], replies[k][2]) :
                  k \in 1..Len(replies)}
        ELSE IF get_possible_moves(b1, player) # <<>> THEN {b1} ELSE {}

\* board = eval(input()): the next board of the game
ReceiveBoard ==
    /\ ret # NoCall /\ ret.limit # 0
    /\ ret.move # None
    /\ board' \in next_boards(board, color, ret.move)
    /\ ret' = NoCall
    /\ UNCHANGED <<cached_states, config>>

Next ==
    \/ SelectMoveMinimax
    \/ SelectMoveAlphabeta
    \/ DepthZeroMinimax
    \/ DepthZeroAlphabeta
    \/ ReceiveBoard

Spec == Init /\ [][Next]_vars

(* ---------------------------------------------------------------------- *)
(* Properties                                                              *)
(* ---------------------------------------------------------------------- *)

\* the cache of a process that has not searched yet
EmptyCache == << >>

\* the legal moves of the player on the board at hand, as generated
Moves == get_possible_moves(board, color)

\* a call has been made on the board at hand and ret holds what it returned
Called == ret.fn # "none"

\* the call was a search of the run (not a call with depth limit 0)
Searched == Called /\ ret.limit # 0

\* the largest element of a non-empty set of integers
Max(S) == CHOOSE x \in S : \A y \in S : y <= x

\* the smallest element of a non-empty set of integers
Min(S) == CHOOSE x \in S : \A y \in S : x <= y

\* what the last call returns when made again with caching off
Uncached ==
    IF ret.fn = "minimax"
    THEN select_move_minimax(board, color, ret.limit, 0, fresh(EmptyCache))
    ELSE select_move_alphabeta(board, color, ret.limit, 0, ordering,
                               fresh(EmptyCache))

(* C1: with caching off, ordering off and no depth limit, the root value   *)
(* of the alpha-beta search started with window (-inf, +inf) is the root   *)
(* value of the minimax search on the same board and player.               *)
C1_AlphaBetaValueIsMinimaxValue ==
    (Called /\ ret.fn = "alphabeta" /\ ret.limit = -1
        /\ caching = 0 /\ ordering = 0)
    => ret.utility =
           select_move_minimax(board, color, -1, 0, fresh(EmptyCache)).utility

\* an unlimited alpha-beta search that chose a move and pruned
C1_Witness ==
    /\ Called /\ ret.fn = "alphabeta" /\ ret.limit = -1
    /\ caching = 0 /\ ordering = 0
    /\ ret.move # None
    /\ ret.cuts > 0

(* C2: with caching off, for every depth limit, the alpha-beta search with *)
(* ordering on returns the root value of the alpha-beta search with        *)
(* ordering off.                                                            *)
C2_OrderingKeepsValue ==
    (Called /\ ret.fn = "alphabeta" /\ caching = 0 /\ ordering = 1)
    => ret.utility =
           select_move_alphabeta(board, color, ret.limit, 0, 0,
                                 fresh(EmptyCache)).utility

\* an ordered search whose root visits the moves in another order than they
\* were generated in, and that pruned
C2_Witness ==
    /\ Searched /\ ret.fn = "alphabeta" /\ caching = 0 /\ ordering = 1
    /\ sorted_max(board, color, Moves) # Moves
    /\ ret.cuts > 0

(* C3: a search with caching on, started from an empty cache, returns the  *)
(* (move, value) pair of the same search with caching off, for minimax and *)
(* for alpha-beta, whatever the depth limit.                                *)
C3_CachingTransparentInOneSearch ==
    (Called /\ caching = 1 /\ ret.before = EmptyCache)
    => <<ret.move, ret.utility>> = <<Uncached.move, Uncached.utility>>

\* an alpha-beta search from an empty cache that was answered from the cache
\* at a board it had already reached by another order of moves
C3_Witness ==
    /\ Searched /\ ret.fn = "alphabeta" /\ caching = 1
    /\ ret.before = EmptyCache
    /\ ret.hits > 0

(* C4: in a run of select_move_minimax calls with caching on and one depth *)
(* limit >= 1, every call returns the move the same call returns with      *)
(* caching off.                                                             *)
C4_CachingTransparentAcrossCalls ==
    (Called /\ ret.fn = "minimax" /\ caching = 1 /\ ret.limit >= 1)
    => ret.move = Uncached.move

\* the value a root move leads to: the value of the position it gives, for
\* the opponent to move, searched one level less deep
root_value(move) ==
    minimax_min_node(play_move(board, color, move[1], move[2]), 3 - color,
                     ret.limit - 1, 0, fresh(EmptyCache)).utility

\* the places in Moves of the root moves that lead to the best value
best_root_moves ==
    LET best == Max({root_value(Moves[k]) : k \in 1..Len(Moves)})
    IN  {k \in 1..Len(Moves) : root_value(Moves[k]) = best}

(* C5: when two or more legal root moves lead to the same best value, the  *)
(* entry points (minimax, alpha-beta with ordering off or on) return the   *)
(* one that the move generator produced first.                              *)
C5_TieBreakFirstGenerated ==
    (Searched /\ caching = 0 /\ Moves # <<>>
        /\ Cardinality(best_root_moves) >= 2)
    => ret.move = Moves[Min(best_root_moves)]

\* the one-ply evaluations of the root moves, for the player selecting the move
one_ply(k) ==
    compute_utility(play_move(board, color, Moves[k][1], Moves[k][2]), color)

(* C6: with depth limit 1 and caching off, on a board where the player has *)
(* a legal move, both searches return the largest one-ply evaluation for   *)
(* the player selecting the move, and the first move that attains it.      *)
C6_DepthOneIsBestOnePly ==
    (Called /\ ret.limit = 1 /\ caching = 0 /\ Moves # <<>>)
    => LET best == Max({one_ply(k) : k \in 1..Len(Moves)})
       IN  /\ ret.utility = best
           /\ ret.move = Moves[Min({k \in 1..Len(Moves) : one_ply(k) = best})]

(* C7: on a board without legal moves, or called with depth 0, the search  *)
(* returns (None, utility(board, player)), with caching off and on,        *)
(* whatever earlier searches have left in the cache.                        *)
C7_LeafContract ==
    (Called /\ (Moves = <<>> \/ ret.limit = 0))
    => /\ ret.move = None
       /\ ret.utility = compute_utility(board, color)

(* C8: with caching on, an alpha-beta node that expands its children       *)
(* stores its (move, value) under the key built from the window it was     *)
(* entered with, the key its lookup uses.                                   *)
C8_StoredUnderEntryWindow ==
    (Searched /\ ret.fn = "alphabeta" /\ caching = 1 /\ Moves # <<>>
        /\ alphabeta_key(board, color, NegInf, PosInf) \notin DOMAIN ret.before)
    => /\ alphabeta_key(board, color, NegInf, PosInf) \in DOMAIN cached_states
       /\ cached_states[alphabeta_key(board, color, NegInf, PosInf)]
              = <<ret.move, ret.utility>>

(* C9: every call of an alpha-beta node made from select_move_alphabeta is *)
(* entered with alpha < beta, with alpha not below and beta not above      *)
(* those its caller was entered with; so no node calls on once its window  *)
(* has beta <= alpha.                                                       *)
C9_WindowInvariant ==
    (Called /\ ret.fn = "alphabeta")
    => \A w \in ret.windows : w[3] < w[4] /\ w[1] <= w[3] /\ w[4] <= w[2]

\* a search that pruned, with a call whose window was narrowed on both sides
C9_Witness ==
    /\ Searched /\ ret.fn = "alphabeta"
    /\ ret.cuts > 0
    /\ \E w \in ret.windows : NegInf < w[3] /\ w[4] < PosInf

(* C10: when the player has a legal move and the depth limit is not 0, the *)
(* entry points return one of the legal moves, never None, under every     *)
(* combination of caching and ordering and after earlier searches have     *)
(* filled the cache.                                                        *)
C10_ReturnedMoveIsLegal ==
    (Searched /\ Moves # <<>>)
    => \E k \in 1..Len(Moves) : ret.move = Moves[k]

\* a search answered from the cache that earlier searches of the run filled
C10_Witness ==
    /\ Searched /\ Moves # <<>>
    /\ caching = 1 /\ ret.before # EmptyCache
    /\ ret.hits > 0
    /\ ret.move # None

====
